---- MODULE Spec2Model ----
(***************************************************************************)
(* A model of ml-service/train_model_v2.py: the crop-yield training        *)
(* pipeline, main() = load_data -> preprocess_data -> select_features ->   *)
(* train_production_model (with temporal_cv and spatial_cv) ->             *)
(* save_artifacts.                                                         *)
(*                                                                         *)
(* The table df is the pair (columns, rows): columns is the set of column  *)
(* names, rows the sequence of records, each a function from column name   *)
(* to cell.  A string is a sequence of tokens: a word in lower, upper or   *)
(* mixed case, or a separator (space, other white space, underscore,       *)
(* comma).  A cell is a string, an integer or NaN (pandas' missing value). *)
(* The estimators are opaque: a fit either raises or yields a score.       *)
(***************************************************************************)
EXTENDS Integers, Sequences, FiniteSets, TLC

VARIABLES
    pc,                \* position in main() and the functions it calls
    error,             \* the exception that ended the run, if any
    raw,               \* main: df, the table load_data returned
    columns,           \* preprocess_data: df.columns
    rows,              \* preprocess_data: the rows of df
    encoders,          \* preprocess_data: encoders, column -> LabelEncoder
    scaler,            \* preprocess_data: scaler
    feature_names,     \* select_features: available_features
    r2,                \* train_production_model: the holdout r2
    n_splits,          \* the n_splits argument of temporal_cv / spatial_cv
    years,             \* temporal_cv: sorted distinct years
    i,                 \* temporal_cv: loop index; spatial_cv: fold index
    splits,            \* spatial_cv: the (train_idx, test_idx) pairs of gkf.split
    temporal_results,  \* what temporal_cv returns
    spatial_results,   \* what spatial_cv returns
    metrics,           \* train_production_model: metrics
    artifacts,         \* the files save_artifacts has written in this run
    fits               \* every fit call made so far, in order

vars == <<pc, error, raw, columns, rows, encoders, scaler, feature_names, r2,
          n_splits, years, i, splits, temporal_results, spatial_results,
          metrics, artifacts, fits>>

tableVars == <<columns, rows>>
prepVars == <<encoders, scaler>>
cvVars == <<n_splits, years, i, splits, temporal_results, spatial_results>>
outVars == <<feature_names, r2, metrics, artifacts>>

(***************************************************************************)
(* Strings                                                                 *)
(***************************************************************************)
Word(w) == [w |-> w, case |-> "lower"]     \* 'rice'
UWord(w) == [w |-> w, case |-> "upper"]    \* 'RICE'
MWord(w) == [w |-> w, case |-> "mixed"]    \* 'Rice'
SP == [w |-> " ", case |-> "lower"]
TAB == [w |-> "\t", case |-> "lower"]
US == [w |-> "_", case |-> "lower"]
COMMA == [w |-> ",", case |-> "lower"]
Separators == {SP, TAB, US, COMMA}
Whitespace == {SP, TAB}

S1(a) == <<Word(a)>>
S2(a, b) == <<Word(a), US, Word(b)>>
S3(a, b, c) == <<Word(a), US, Word(b), US, Word(c)>>

\* str.lower()
lower(s) == [k \in DOMAIN s |-> [s[k] EXCEPT !.case = "lower"]]

\* str.upper()
upper(s) == [k \in DOMAIN s |-> IF s[k] \in Separators THEN s[k]
                                ELSE [s[k] EXCEPT !.case = "upper"]]

RECURSIVE lstrip(_)
lstrip(s) == IF s # <<>> /\ Head(s) \in Whitespace THEN lstrip(Tail(s)) ELSE s

RECURSIVE rstrip(_)
rstrip(s) ==
    IF s # <<>> /\ s[Len(s)] \in Whitespace THEN rstrip(SubSeq(s, 1, Len(s) - 1)) ELSE s

\* strip that removes one white space character from each end, not all
strip_once(s) ==
    LET a == IF s # <<>> /\ Head(s) \in Whitespace THEN Tail(s) ELSE s
    IN IF a # <<>> /\ a[Len(a)] \in Whitespace THEN SubSeq(a, 1, Len(a) - 1) ELSE a

\* str.strip()
strip(s) == rstrip(lstrip(s))

\* str.replace(a, b) for one-character a and b
replace(s, a, b) == [k \in DOMAIN s |-> IF s[k] = a THEN b ELSE s[k]]

\* sub in s
Contains(sub, s) ==
    \E k \in 0 .. (Len(s) - Len(sub)) : SubSeq(s, k + 1, k + Len(sub)) = sub

(***************************************************************************)
(* Cells                                                                   *)
(***************************************************************************)
Str(s) == [t |-> "str", v |-> s]
Num(n) == [t |-> "num", v |-> n]
NaN == [t |-> "nan", v |-> 0]

isna(x) == x.t = "nan"

\* str(x), Series.astype(str)
str(x) ==
    CASE x.t = "str" -> x.v
      [] x.t = "num" -> <<Word(ToString(x.v))>>
      [] OTHER -> <<Word("nan")>>

Min(a, b) == IF a <= b THEN a ELSE b

Range(f) == {f[x] : x \in DOMAIN f}

\* Python's sorted() of a set of integers
RECURSIVE Sorted(_)
Sorted(S) ==
    IF S = {} THEN <<>>
    ELSE LET m == CHOOSE x \in S : \A z \in S : x <= z
         IN <<m>> \o Sorted(S \ {m})

\* The exceptions that end a run
NoError == [type |-> "none", what |-> <<>>]
KeyError(c) == [type |-> "KeyError", what |-> c]
Failure(type) == [type |-> type, what |-> <<>>]

(***************************************************************************)
(* CONFIGURATION                                                           *)
(***************************************************************************)
CROP_YIELD_LIMITS ==
    [rice |-> <<500, 8000>>, wheat |-> <<500, 7000>>, maize |-> <<500, 12000>>,
     cotton |-> <<100, 3000>>, sugarcane |-> <<30000, 150000>>,
     groundnut |-> <<300, 4000>>, soybean |-> <<300, 4000>>,
     soyabean |-> <<300, 4000>>, bajra |-> <<200, 3500>>, jowar |-> <<200, 3500>>,
     potato |-> <<5000, 50000>>, onion |-> <<5000, 40000>>,
     tomato |-> <<10000, 80000>>, default |-> <<50, 100000>>]

SEASON_MAPPING ==
    {<<S1("winter"), S1("rabi")>>, <<S1("summer"), S1("zaid")>>,
     <<S1("autumn"), S1("kharif")>>,
     <<<<Word("whole"), SP, Word("year")>>, S1("annual")>>,
     <<S1("monsoon"), S1("kharif")>>}

\* the keys are upper-case words; a word's letters are written in lower case
\* and its case is kept beside them
U1(a) == <<UWord(a)>>
U2(a, b) == <<UWord(a), SP, UWord(b)>>

REGION_MAPPING ==
    <<[region |-> <<Word("north-india")>>,
       states |-> {U1("jammu"), U1("kashmir"), U1("himachal"), U1("punjab"),
                   U1("haryana"), U1("uttarakhand"), U2("uttar", "pradesh"),
                   U1("delhi")}],
      [region |-> <<Word("south-india")>>,
       states |-> {U1("andhra"), U1("telangana"), U1("karnataka"), U1("tamil"),
                   U1("kerala"), U1("puducherry")}],
      [region |-> <<Word("east-india")>>,
       states |-> {U1("bihar"), U1("jharkhand"), U2("west", "bengal"), U1("odisha"),
                   U1("assam"), U1("sikkim"), U1("arunachal"), U1("nagaland"),
                   U1("manipur"), U1("mizoram"), U1("tripura"), U1("meghalaya")}],
      [region |-> <<Word("west-india")>>,
       states |-> {U1("rajasthan"), U1("gujarat"), U1("maharashtra"), U1("goa")}],
      [region |-> <<Word("central-india")>>,
       states |-> {U1("madhya"), U1("chhattisgarh")}]>>

(***************************************************************************)
(* Column names                                                            *)
(***************************************************************************)
state == S1("state")
district == S1("district")
crop == S1("crop")
season == S1("season")
region == S1("region")
soil_type == S2("soil", "type")
year == S1("year")
yield == S1("yield")
rainfall == S1("rainfall")
temperature == S1("temperature")
humidity == S1("humidity")
ndvi == S1("ndvi")
soil_moisture == S2("soil", "moisture")
lst == S1("lst")
production == S1("production")
area == S1("area")
area_hectares == S2("area", "hectares")
fertilizer == S1("fertilizer")
pesticide == S1("pesticide")
annual_rainfall == S2("annual", "rainfall")
crop_year == S2("crop", "year")

\* f'{col}_encoded', f'{col}_scaled'
Encoded(col) == col \o <<US, Word("encoded")>>
Scaled(col) == col \o <<US, Word("scaled")>>

Table(cols, rws) == [columns |-> cols, rows |-> rws]
df == Table(columns, rows)

RowIds == DOMAIN rows
Column(c) == {rows[r][c] : r \in RowIds}     \* df[c].unique()

\* df[c] = f(row), for every row: a new column, or an old one overwritten
Assign(T, c, f(_)) ==
    Table(T.columns \cup {c},
          [r \in DOMAIN T.rows |->
              [d \in T.columns \cup {c} |-> IF d = c THEN f(T.rows[r]) ELSE T.rows[r][d]]])

\* dict.get(key, default) of a dict given as a set of <<key, value>> pairs
Get(dict, key, default) ==
    IF \E kv \in dict : kv[1] = key
    THEN (CHOOSE kv \in dict : kv[1] = key)[2]
    ELSE default

(***************************************************************************)
(* load_data                                                               *)
(***************************************************************************)
\* lines 85-99 and main line 609: the first of the two paths that exists is
\* read, or FileNotFoundError ends the run
Load ==
    /\ pc = "load"
    /\ \/ /\ columns' = raw.columns
          /\ rows' = raw.rows
          /\ pc' = "preprocess"
          /\ UNCHANGED error
       \/ /\ pc' = "aborted"
          /\ error' = Failure("FileNotFoundError")
          /\ UNCHANGED tableVars
    /\ UNCHANGED <<raw, prepVars, cvVars, outVars, fits>>

(***************************************************************************)
(* preprocess_data, steps 1-5: the schema normalization                    *)
(***************************************************************************)
\* line 169: str.strip().str.lower().str.replace(' ', '_')
NormalizeName(c) == replace(lower(strip(c)), SP, US)

\* Step 1, line 169
NormalizeColumns(T) ==
    LET names == {NormalizeName(c) : c \in T.columns}
        old(n) == CHOOSE c \in T.columns : NormalizeName(c) = n
    IN Table(names, [r \in DOMAIN T.rows |-> [n \in names |-> T.rows[r][old(n)]]])

\* lines 179-180
CopyColumn(T, old, new) ==
    IF old \in T.columns /\ new \notin T.columns
    THEN Assign(T, new, LAMBDA row : row[old])
    ELSE T

\* Step 2, lines 173-180
MapColumns(T) ==
    CopyColumn(CopyColumn(CopyColumn(T, annual_rainfall, rainfall),
                          area, area_hectares),
               crop_year, year)

\* line 186: fillna('unknown').astype(str).str.lower().str.strip()
CleanString(x) == Str(strip(lower(str(IF isna(x) THEN Str(S1("unknown")) ELSE x))))

CleanColumn(T, col) ==
    IF col \in T.columns THEN Assign(T, col, LAMBDA row : CleanString(row[col])) ELSE T

\* Step 3, lines 183-186
CleanStrings(T) ==
    CleanColumn(CleanColumn(CleanColumn(CleanColumn(T, state), district), crop), season)

\* lines 120-126
normalize_season(x) ==
    IF isna(x) THEN S1("kharif")
    ELSE LET season_lower == strip(lower(str(x)))
         IN Get(SEASON_MAPPING, season_lower, season_lower)

\* Step 4, lines 189-190
NormalizeSeasons(T) ==
    IF season \in T.columns
    THEN Assign(T, season, LAMBDA row : Str(normalize_season(row[season])))
    ELSE T

\* lines 106-117: the first region, in the order of the table, one of whose
\* names occurs in the upper-cased state
map_state_to_region(x) ==
    IF isna(x) THEN <<Word("central-india")>>
    ELSE LET state_upper == upper(str(x))
             hit(k) == \E s \in REGION_MAPPING[k].states : Contains(s, state_upper)
         IN IF \E k \in DOMAIN REGION_MAPPING : hit(k)
            THEN REGION_MAPPING[CHOOSE k \in DOMAIN REGION_MAPPING :
                                    hit(k) /\ \A j \in 1 .. (k - 1) : ~hit(j)].region
            ELSE <<Word("central-india")>>

\* Step 5, lines 194-195
AddRegion(T) ==
    IF region \notin T.columns /\ state \in T.columns
    THEN Assign(T, region, LAMBDA row : Str(map_state_to_region(row[state])))
    ELSE T

\* Steps 1 to 5, lines 168-196
SchemaNormalizer(T) ==
    AddRegion(NormalizeSeasons(CleanStrings(MapColumns(NormalizeColumns(T)))))

Normalize ==
    /\ pc = "preprocess"
    /\ columns' = SchemaNormalizer(df).columns
    /\ rows' = SchemaNormalizer(df).rows
    /\ pc' = "yield_conversion"
    /\ UNCHANGED <<error, raw, prepVars, cvVars, outVars, fits>>

(***************************************************************************)
(* preprocess_data, steps 6-7: unit conversion and the outlier filter      *)
(***************************************************************************)
YieldMedianLimit == 100     \* df['yield'].median() < 100
TonsToKg == 1000            \* df['yield'] * 1000

\* whether Series.median() < limit: NaN is skipped, the median of an even
\* number of values is the mean of the two in the middle, and the median of
\* no value is NaN, which is below nothing
MedianBelow(cells, limit) ==
    LET present == SelectSeq(cells, LAMBDA x : ~isna(x))
        s == SortSeq([k \in DOMAIN present |-> present[k].v], LAMBDA a, b : a < b)
        n == Len(s)
    IN /\ n > 0
       /\ IF n % 2 = 1 THEN s[(n + 1) \div 2] < limit
          ELSE s[n \div 2] + s[(n \div 2) + 1] < 2 * limit

\* line 203: NaN * 1000 is NaN
Times(x, k) == IF isna(x) THEN x ELSE Num(x.v * k)

\* Step 6, lines 199-203
ConvertYield ==
    /\ pc = "yield_conversion"
    /\ IF yield \in columns /\ MedianBelow([r \in RowIds |-> rows[r][yield]], YieldMedianLimit)
       THEN /\ rows' = Assign(df, yield, LAMBDA row : Times(row[yield], TonsToKg)).rows
            /\ UNCHANGED columns
       ELSE UNCHANGED tableVars
    /\ pc' = "remove_outliers"
    /\ UNCHANGED <<error, raw, prepVars, cvVars, outVars, fits>>

\* line 145: CROP_YIELD_LIMITS.get(crop, CROP_YIELD_LIMITS['default'])
Limits(name) ==
    IF Len(name) = 1 /\ name[1].case = "lower" /\ name[1].w \in DOMAIN CROP_YIELD_LIMITS
    THEN CROP_YIELD_LIMITS[name[1].w]
    ELSE CROP_YIELD_LIMITS["default"]

\* the filter without the crop's upper limit
is_valid_yield_no_upper(row) ==
    LET yield_val == row[yield]
    IN IF isna(yield_val) \/ yield_val.v <= 0 THEN FALSE
       ELSE Limits(strip(lower(str(row[crop]))))[1] <= yield_val.v

\* lines 137-146
is_valid_yield(row) ==
    LET name == strip(lower(str(row[crop])))
        yield_val == row[yield]
    IN IF isna(yield_val) \/ yield_val.v <= 0 THEN FALSE
       ELSE LET limits == Limits(name)
            IN limits[1] <= yield_val.v /\ yield_val.v <= limits[2]

\* Step 7, line 206, and detect_agronomic_outliers, lines 129-154: a table
\* with no row ends in ZeroDivisionError (line 151), a table without the
\* crop or the yield column in KeyError
RemoveOutliers ==
    /\ pc = "remove_outliers"
    /\ IF rows = <<>>
       THEN /\ pc' = "aborted" /\ error' = Failure("ZeroDivisionError")
            /\ UNCHANGED tableVars
       ELSE IF crop \notin columns
       THEN /\ pc' = "aborted" /\ error' = KeyError(crop)
            /\ UNCHANGED tableVars
       ELSE IF yield \notin columns
       THEN /\ pc' = "aborted" /\ error' = KeyError(yield)
            /\ UNCHANGED tableVars
       ELSE /\ rows' = SelectSeq(rows, is_valid_yield)
            /\ pc' = "backfill"
            /\ UNCHANGED <<columns, error>>
    /\ UNCHANGED <<raw, prepVars, cvVars, outVars, fits>>

(***************************************************************************)
(* preprocess_data, step 7b: the backfill of missing columns               *)
(***************************************************************************)
\* a value drawn by np.random: the model keeps the draw, not its value
Drawn(what) == [t |-> "drawn", v |-> what]
\* a + b, a / b on cells the model does not evaluate
Plus(a, b) == [t |-> "plus", v |-> <<a, b>>]
Ratio(a, b) == [t |-> "ratio", v |-> <<a, b>>]

Fill(T, c, x) == Assign(T, c, LAMBDA row : x)

\* lines 213-218
BackfillWeather(T) ==
    IF temperature \notin T.columns
    THEN Fill(Fill(T, temperature, Drawn("uniform(25, 35)")),
              humidity, Drawn("uniform(40, 80)"))
    ELSE T

\* lines 220-223
BackfillSoil(T) ==
    IF soil_type \notin T.columns
    THEN Fill(T, soil_type, Drawn("choice(soil_types)"))
    ELSE T

\* lines 225-242
BackfillSatellite(T) ==
    IF ndvi \notin T.columns
    THEN LET A == Fill(Fill(T, ndvi, Drawn("uniform(0.3, 0.8)")),
                       soil_moisture, Drawn("uniform(15, 45)"))
         IN IF temperature \in A.columns
            THEN Assign(A, lst, LAMBDA row : Plus(row[temperature], Drawn("uniform(-2, 5)")))
            ELSE Fill(A, lst, Drawn("uniform(20, 35)"))
    ELSE T

Backfilled(T) == BackfillSatellite(BackfillSoil(BackfillWeather(T)))

Backfill ==
    /\ pc = "backfill"
    /\ columns' = Backfilled(df).columns
    /\ rows' = Backfilled(df).rows
    /\ pc' = "engineer"
    /\ UNCHANGED <<error, raw, prepVars, cvVars, outVars, fits>>

(***************************************************************************)
(* preprocess_data, step 8: feature engineering                            *)
(***************************************************************************)
\* pd.to_numeric(x, errors='coerce'), then fillna(0); a string cell of the
\* model is text that is no number
ToNumeric(x) == IF x.t = "num" THEN x ELSE Num(0)

\* x + 1 on a numeric cell
PlusOne(x) == IF isna(x) THEN x ELSE Num(x.v + 1)

\* a column holds text, on which arithmetic raises TypeError
HasText(T, c) == \E r \in DOMAIN T.rows : T.rows[r][c].t = "str"

\* 8a, lines 248-249
ProductivityIndex(T) ==
    IF production \in T.columns /\ area_hectares \in T.columns
    THEN Assign(T, S2("productivity", "index"),
                LAMBDA row : Ratio(row[production], PlusOne(row[area_hectares])))
    ELSE T

\* 8b, lines 252-258, for source = fertilizer or pesticide
Intensity(T, source) ==
    IF source \in T.columns
    THEN LET A == Assign(T, source, LAMBDA row : ToNumeric(row[source]))
         IN Assign(A, source \o <<US, Word("intensity")>>,
                   LAMBDA row : Ratio(row[source], PlusOne(row[area_hectares])))
    ELSE T

\* pd.cut(x, bins=[0, 500, 1000, 1500, 2000, inf], labels=[...]).astype(str):
\* the bins are open on the left and closed on the right
RainfallCategory(x) ==
    Str(CASE x.v <= 0 -> S1("nan")
          [] x.v <= 500 -> S2("very", "low")
          [] x.v <= 1000 -> S1("low")
          [] x.v <= 1500 -> S1("medium")
          [] x.v <= 2000 -> S1("high")
          [] OTHER -> S2("very", "high"))

\* 8c, lines 261-267
RainfallCategories(T) ==
    IF rainfall \in T.columns
    THEN LET A == Assign(T, rainfall, LAMBDA row : ToNumeric(row[rainfall]))
         IN Assign(A, S2("rainfall", "category"), LAMBDA row : RainfallCategory(row[rainfall]))
    ELSE T

\* the rows of a sequence in the order of their year, rows of one year in the
\* order they had
RECURSIVE ByYear(_)
ByYear(rws) ==
    IF rws = <<>> THEN <<>>
    ELSE LET k == CHOOSE k \in DOMAIN rws :
                     /\ \A j \in DOMAIN rws : rws[k][year].v <= rws[j][year].v
                     /\ \A j \in 1 .. (k - 1) : rws[j][year].v # rws[k][year].v
         IN <<rws[k]>> \o ByYear(SubSeq(rws, 1, k - 1) \o SubSeq(rws, k + 1, Len(rws)))

GroupKey(row) == <<row[state], row[crop]>>

\* groupby(['state', 'crop'])['yield'].shift(1) and lines 272-273, on the rows
\* of one group in their sorted order
Lagged(group) ==
    [k \in DOMAIN group |->
        LET prev == IF k = 1 THEN NaN ELSE group[k - 1][yield]
            filled == IF isna(prev) THEN group[k][yield] ELSE prev
        IN [c \in DOMAIN group[k] \cup {S3("prev", "year", "yield"), S2("yield", "change")} |->
               IF c = S3("prev", "year", "yield") THEN prev
               ELSE IF c = S2("yield", "change") THEN Num(group[k][yield].v - filled.v)
               ELSE group[k][c]]]

RECURSIVE Concat(_)
Concat(seqs) == IF seqs = <<>> THEN <<>> ELSE Head(seqs) \o Concat(Tail(seqs))

\* the orders in which sort_values can list the (state, crop) groups: the
\* order of Python's strings is not modelled, so any order of the keys
KeyOrders(T) ==
    LET K == {GroupKey(T.rows[r]) : r \in DOMAIN T.rows}
        n == Cardinality(K)
    IN {o \in [1 .. n -> K] : \A a, b \in 1 .. n : a # b => o[a] # o[b]}

\* 8d, lines 270-273, with the groups in the order key_order
LaggedYield(T, key_order) ==
    Table(T.columns \cup {S3("prev", "year", "yield"), S2("yield", "change")},
          Concat([g \in DOMAIN key_order |->
                     Lagged(ByYear(SelectSeq(T.rows,
                                             LAMBDA row : GroupKey(row) = key_order[g])))]))

Engineered(T) == RainfallCategories(Intensity(Intensity(ProductivityIndex(T), fertilizer), pesticide))

\* lines 244-274: TypeError on arithmetic over text, KeyError on a column
\* that is read and is not there
Engineer ==
    /\ pc = "engineer"
    /\ LET abort(e) == /\ pc' = "aborted" /\ error' = e /\ UNCHANGED tableVars
           ratio == production \in columns /\ area_hectares \in columns
           intensity == fertilizer \in columns \/ pesticide \in columns
       IN IF ratio /\ (HasText(df, production) \/ HasText(df, area_hectares))
          THEN abort(Failure("TypeError"))
          ELSE IF intensity /\ area_hectares \notin columns
          THEN abort(KeyError(area_hectares))
          ELSE IF intensity /\ HasText(df, area_hectares)
          THEN abort(Failure("TypeError"))
          ELSE IF year \in columns /\ state \notin columns
          THEN abort(KeyError(state))
          ELSE /\ IF year \in columns
                  THEN \E key_order \in KeyOrders(df) :
                          /\ columns' = LaggedYield(Engineered(df), key_order).columns
                          /\ rows' = LaggedYield(Engineered(df), key_order).rows
                  ELSE /\ columns' = Engineered(df).columns
                       /\ rows' = Engineered(df).rows
               /\ pc' = "encode"
               /\ UNCHANGED error
    /\ UNCHANGED <<raw, prepVars, cvVars, outVars, fits>>

(***************************************************************************)
(* preprocess_data, steps 9-10: the encoders and the scaler                *)
(***************************************************************************)
categorical_cols == <<state, district, crop, season, region, soil_type>>
numerical_cols == <<rainfall, ndvi, soil_moisture, lst, temperature, humidity>>

Present(cols, T) == SelectSeq(cols, LAMBDA c : c \in T.columns)

\* a fit call, as the log of fits keeps it
Fit(obj, what, train, test) == [obj |-> obj, what |-> what, train |-> train, test |-> test]

\* str(x) of any cell, drawn ones too
Text(x) == IF x.t \in {"str", "num", "nan"} THEN str(x) ELSE <<Word(x.v)>>

\* LabelEncoder().fit(values): classes_ are the distinct values
LabelEncoder(values) == [classes_ |-> values]

\* le.transform(x): the code of a class, its rank among classes_, which the
\* model keeps as the class itself
Code(x) == [t |-> "code", v |-> x]

RECURSIVE EncodeAll(_, _)
EncodeAll(T, cols) ==
    IF cols = <<>> THEN T
    ELSE EncodeAll(Assign(T, Encoded(Head(cols)), LAMBDA row : Code(Text(row[Head(cols)]))),
                   Tail(cols))

\* Step 9, lines 278-286
Encode ==
    /\ pc = "encode"
    /\ LET cols == Present(categorical_cols, df)
       IN /\ encoders' = [c \in Range(cols) |->
                             LabelEncoder({Text(rows[r][c]) : r \in RowIds})]
          /\ columns' = EncodeAll(df, cols).columns
          /\ rows' = EncodeAll(df, cols).rows
          /\ fits' = fits \o [k \in DOMAIN cols |-> Fit("encoder", cols[k], RowIds, {})]
    /\ pc' = "scale"
    /\ UNCHANGED <<error, raw, scaler, cvVars, outVars>>

\* StandardScaler().fit(df[cols])
StandardScaler(cols, n) == [fitted |-> TRUE, cols |-> cols, n_samples_seen_ |-> n]

\* (x - mean) / std, which the model does not evaluate
Standardized(x) == [t |-> "scaled", v |-> x]

fillna0(x) == IF isna(x) THEN Num(0) ELSE x

RECURSIVE ScaleAll(_, _)
ScaleAll(T, cols) ==
    IF cols = <<>> THEN T
    ELSE LET c == Head(cols)
             A == Assign(T, c, LAMBDA row : fillna0(row[c]))
         IN ScaleAll(Assign(A, Scaled(c), LAMBDA row : Standardized(row[c])), Tail(cols))

\* Step 10, lines 290-299: StandardScaler raises ValueError on no row
Scale ==
    /\ pc = "scale"
    /\ LET scale_cols == Present(numerical_cols, df)
       IN IF scale_cols = <<>>
          THEN /\ pc' = "final_stats"
               /\ UNCHANGED <<tableVars, scaler, error, fits>>
          ELSE IF rows = <<>>
          THEN /\ pc' = "aborted" /\ error' = Failure("ValueError")
               /\ UNCHANGED <<tableVars, scaler, fits>>
          ELSE /\ scaler' = StandardScaler(scale_cols, Len(rows))
               /\ columns' = ScaleAll(df, scale_cols).columns
               /\ rows' = ScaleAll(df, scale_cols).rows
               /\ fits' = Append(fits, Fit("scaler", scale_cols, RowIds, {}))
               /\ pc' = "final_stats"
               /\ UNCHANGED error
    /\ UNCHANGED <<raw, encoders, cvVars, outVars>>

\* lines 301-312: the summary reads state, crop and district
FinalStats ==
    /\ pc = "final_stats"
    /\ LET missing == SelectSeq(<<state, crop, district>>, LAMBDA c : c \notin columns)
       IN IF missing # <<>>
          THEN pc' = "aborted" /\ error' = KeyError(Head(missing))
          ELSE pc' = "select_features" /\ UNCHANGED error
    /\ UNCHANGED <<raw, tableVars, prepVars, cvVars, outVars, fits>>

(***************************************************************************)
(* select_features                                                         *)
(***************************************************************************)
\* lines 327-339
feature_priority ==
    <<Encoded(state), Encoded(district), Encoded(crop), Encoded(season),
      Encoded(soil_type),
      Scaled(rainfall), Scaled(temperature), Scaled(humidity),
      Scaled(ndvi), Scaled(soil_moisture), Scaled(lst)>>

\* lines 341-346 and main lines 615-616
SelectFeatures ==
    /\ pc = "select_features"
    /\ feature_names' = Present(feature_priority, df)
    /\ IF yield \in columns
       THEN pc' = "train" /\ UNCHANGED error
       ELSE pc' = "aborted" /\ error' = KeyError(yield)
    /\ UNCHANGED <<raw, tableVars, prepVars, cvVars, r2, metrics, artifacts, fits>>

(***************************************************************************)
(* train_production_model                                                  *)
(***************************************************************************)
\* What an opaque estimator yields when it is fit and scored: an R2, in
\* hundredths (or it raises)
R2Values == {-20, 85}

TestSizeInverse == 5     \* test_size=0.2

\* lines 478-520: the 80/20 split, the baselines and the production model;
\* train_test_split raises ValueError when the train side would be empty
TrainModels ==
    /\ pc = "train"
    /\ LET n_test == (Len(rows) + TestSizeInverse - 1) \div TestSizeInverse
           n_train == Len(rows) - n_test
           split == "train_test_split(random_state=42)"
       IN IF n_train = 0
          THEN /\ pc' = "aborted" /\ error' = Failure("ValueError")
               /\ UNCHANGED <<r2, fits>>
          ELSE /\ fits' = fits \o <<Fit("baseline", "Linear Regression", split, split),
                                    Fit("baseline", "Ridge Regression", split, split),
                                    Fit("baseline", "Random Forest (light)", split, split),
                                    Fit("model", <<n_train, n_test>>, split, split)>>
               /\ \/ \E out \in R2Values :
                        /\ r2' = Num(out)
                        /\ pc' = "temporal_cv"
                        /\ UNCHANGED error
                  \/ /\ pc' = "aborted" /\ error' = Failure("fit")
                     /\ UNCHANGED r2
    /\ UNCHANGED <<raw, tableVars, prepVars, cvVars, feature_names, metrics, artifacts>>

\* What a CV function returned: nothing yet, Python's {}, or the dict of
\* result lists (of which the model keeps 'r2')
Unset == [kind |-> "unset", r2 |-> <<>>]
EmptyDict == [kind |-> "{}", r2 |-> <<>>]
Results(scores) == [kind |-> "lists", r2 |-> scores]

(***************************************************************************)
(* temporal_cv                                                             *)
(***************************************************************************)
MinYears == 3         \* len(years) < 3
MinTrainYears == 2    \* len(train_years) < 2
MinTestRows == 10     \* len(X_test) < 10
YearsHeldBack == 2    \* range(min(n_splits, len(years) - 2))

\* the loop bound without the cap by n_splits
NumCandidates_NoSplitCap(n, ys) == Len(ys) - YearsHeldBack

\* range(min(n_splits, len(years) - 2)): the number of candidate folds
NumCandidates(n, ys) == Min(n, Len(ys) - YearsHeldBack)

\* years[-(k + 1)]
TestYear(ys, k) == ys[Len(ys) - k]

\* the training years with the test year let in (<= for <)
TrainYears_UpToTestYear(ys, test_year) ==
    {ys[j] : j \in {j \in DOMAIN ys : ys[j] <= test_year}}

\* [y for y in years if y < test_year]
TrainYears(ys, test_year) == {ys[j] : j \in {j \in DOMAIN ys : ys[j] < test_year}}

\* df['year'].isin(train_years)
TrainMask(train_years) == {r \in RowIds : rows[r][year].v \in train_years}

\* df['year'] == test_year
TestMask(test_year) == {r \in RowIds : rows[r][year].v = test_year}

\* a fold that fits the scaler again, on its training rows
FoldRefitsScaler(train_idx) ==
    /\ scaler' = StandardScaler(scaler.cols, Cardinality(train_idx))
    /\ UNCHANGED encoders

\* lines 382-389 and 422-426: a fold takes its rows from X as it is and fits
\* the estimator alone; the encoders and the scaler are not touched
FoldTransforms(train_idx) == UNCHANGED <<encoders, scaler>>

\* lines 358-369: the guards, and the empty result lists
TemporalEnter ==
    /\ pc = "temporal_cv"
    /\ IF year \notin columns
       THEN /\ temporal_results' = EmptyDict
            /\ pc' = "spatial_cv"
            /\ UNCHANGED <<years, i>>
       ELSE /\ years' = Sorted({x.v : x \in Column(year)})
            /\ IF Len(years') < MinYears
               THEN /\ temporal_results' = EmptyDict
                    /\ pc' = "spatial_cv"
                    /\ UNCHANGED i
               ELSE /\ temporal_results' = Results(<<>>)
                    /\ i' = 0
                    /\ pc' = "temporal_loop"
    /\ UNCHANGED <<error, raw, tableVars, prepVars, n_splits, splits, spatial_results,
                   outVars, fits>>

\* lines 372-395: one iteration of the loop over the candidate test years
TemporalFold ==
    /\ pc = "temporal_loop"
    /\ i < NumCandidates(n_splits, years)
    /\ LET test_year == TestYear(years, i)
           train_years == TrainYears(years, test_year)
           train_mask == TrainMask(train_years)
           test_mask == TestMask(test_year)
       IN IF Cardinality(train_years) < MinTrainYears
          THEN /\ i' = i + 1                                   \* continue
               /\ UNCHANGED <<pc, error, temporal_results, fits, prepVars>>
          ELSE IF Cardinality(test_mask) < MinTestRows
          THEN /\ i' = i + 1                                   \* continue
               /\ UNCHANGED <<pc, error, temporal_results, fits, prepVars>>
          ELSE /\ fits' = Append(fits, Fit("temporal_fold", test_year, train_mask, test_mask))
               /\ FoldTransforms(train_mask)
               /\ \/ \E out \in R2Values :
                        /\ temporal_results' = Results(Append(temporal_results.r2, out))
                        /\ i' = i + 1
                        /\ UNCHANGED <<pc, error>>
                  \/ /\ pc' = "aborted" /\ error' = Failure("fit")   \* model.fit raises
                     /\ UNCHANGED <<i, temporal_results>>
    /\ UNCHANGED <<raw, tableVars, n_splits, years, splits, spatial_results, outVars>>

\* lines 397-400: the loop is over
TemporalReturn ==
    /\ pc = "temporal_loop"
    /\ ~(i < NumCandidates(n_splits, years))
    /\ pc' = "spatial_cv"
    /\ UNCHANGED <<error, raw, tableVars, prepVars, cvVars, outVars, fits>>

(***************************************************************************)
(* spatial_cv                                                              *)
(***************************************************************************)
MinKFoldSplits == 2    \* GroupKFold(n_splits=...) raises ValueError below 2

\* the orders in which np.argsort(n_samples_per_group)[::-1] can list the
\* groups: largest first, ties in an order the sort does not promise
GroupOrders(groups) ==
    LET G == Range(groups)
        n == Cardinality(G)
        count(g) == Cardinality({r \in DOMAIN groups : groups[r] = g})
    IN {o \in [1 .. n -> G] :
           /\ \A a, b \in 1 .. n : a # b => o[a] # o[b]
           /\ \A a, b \in 1 .. n : a < b => count(o[a]) >= count(o[b])}

\* np.argmin(n_samples_per_fold): the first of the lightest folds
Lightest(per_fold) ==
    CHOOSE f \in DOMAIN per_fold :
        /\ \A h \in DOMAIN per_fold : per_fold[f] <= per_fold[h]
        /\ \A h \in DOMAIN per_fold : per_fold[h] = per_fold[f] => f <= h

\* GroupKFold._iter_test_indices: each group, largest first, goes to the
\* fold that is lightest so far
RECURSIVE GroupToFold(_, _, _, _)
GroupToFold(groups, order, per_fold, g2f) ==
    IF order = <<>> THEN g2f
    ELSE LET g == Head(order)
             weight == Cardinality({r \in DOMAIN groups : groups[r] = g})
             f == Lightest(per_fold)
         IN GroupToFold(groups, Tail(order),
                        [per_fold EXCEPT ![f] = @ + weight],
                        [h \in DOMAIN g2f \cup {g} |-> IF h = g THEN f ELSE g2f[h]])

\* a k-fold split of the rows that does not look at their groups
RowKFoldSplit(groups, k, order) ==
    [f \in 1 .. k |->
        LET test_idx == {r \in DOMAIN groups : (r % k) + 1 = f}
        IN [train |-> DOMAIN groups \ test_idx, test |-> test_idx]]

\* gkf.split(X, y, groups): the (train_idx, test_idx) pairs, fold by fold
GroupKFoldSplit(groups, k, order) ==
    LET g2f == GroupToFold(groups, order, [f \in 1 .. k |-> 0], <<>>)
    IN [f \in 1 .. k |->
           LET test_idx == {r \in DOMAIN groups : g2f[groups[r]] = f}
           IN [train |-> DOMAIN groups \ test_idx, test |-> test_idx]]

\* lines 408-418: the guard, the splitter and the empty result lists
SpatialEnter ==
    /\ pc = "spatial_cv"
    /\ IF district \notin columns
       THEN /\ spatial_results' = EmptyDict
            /\ pc' = "compile_metrics"
            /\ UNCHANGED <<error, i, splits>>
       ELSE LET groups == [r \in RowIds |-> rows[r][district]]
                k == Min(n_splits, Cardinality(Column(district)))
            IN IF k < MinKFoldSplits
               THEN /\ pc' = "aborted"           \* ValueError, outside the try
                    /\ error' = Failure("ValueError")
                    /\ UNCHANGED <<i, splits, spatial_results>>
               ELSE /\ spatial_results' = Results(<<>>)
                    /\ \E order \in GroupOrders(groups) :
                          splits' = GroupKFoldSplit(groups, k, order)
                    /\ i' = 0
                    /\ pc' = "spatial_loop"
                    /\ UNCHANGED error
    /\ UNCHANGED <<raw, tableVars, prepVars, n_splits, years, temporal_results, outVars, fits>>

\* lines 421-432: one fold; an exception ends the loop (lines 435-436)
SpatialFold ==
    /\ pc = "spatial_loop"
    /\ i < Len(splits)
    /\ fits' = Append(fits, Fit("spatial_fold", i + 1, splits[i + 1].train, splits[i + 1].test))
    /\ FoldTransforms(splits[i + 1].train)
    /\ \/ \E out \in R2Values :
             /\ spatial_results' = Results(Append(spatial_results.r2, out))
             /\ i' = i + 1
             /\ pc' = pc
       \/ /\ pc' = "compile_metrics"             \* except Exception: return results
          /\ UNCHANGED <<i, spatial_results>>
    /\ UNCHANGED <<error, raw, tableVars, n_splits, years, splits,
                   temporal_results, outVars>>

\* lines 434-438: the folds are over
SpatialReturn ==
    /\ pc = "spatial_loop"
    /\ ~(i < Len(splits))
    /\ pc' = "compile_metrics"
    /\ UNCHANGED <<error, raw, tableVars, prepVars, cvVars, outVars, fits>>

(***************************************************************************)
(* train_production_model: the metrics record                              *)
(***************************************************************************)
RECURSIVE Sum(_)
Sum(s) == IF s = <<>> THEN 0 ELSE Head(s) + Sum(Tail(s))

\* float(np.mean(scores)): NaN for no score, else the sum over the count
Mean(scores) ==
    IF scores = <<>> THEN NaN ELSE [t |-> "mean", v |-> <<Sum(scores), Len(scores)>>]

\* float(np.std(scores)), which the model does not evaluate
Std(scores) == IF scores = <<>> THEN NaN ELSE [t |-> "std", v |-> scores]

\* results.get('r2', default): the default stands in only for a missing key
GetR2(results, default) == IF results.kind = "lists" THEN results.r2 ELSE default

\* lines 526-558
CompileMetrics ==
    /\ pc = "compile_metrics"
    /\ metrics' =
          [r2_score |-> r2,
           temporal_cv_r2_mean |-> Mean(GetR2(temporal_results, <<r2.v>>)),
           temporal_cv_r2_std |-> Std(GetR2(temporal_results, <<0>>)),
           spatial_cv_r2_mean |-> Mean(GetR2(spatial_results, <<r2.v>>)),
           spatial_cv_r2_std |-> Std(GetR2(spatial_results, <<0>>)),
           total_samples |-> Len(rows),
           n_features |-> Len(feature_names),
           feature_importance |-> Range(feature_names)]
    /\ pc' = "save_artifacts"
    /\ UNCHANGED <<error, raw, tableVars, prepVars, cvVars, feature_names, r2, artifacts, fits>>

(***************************************************************************)
(* save_artifacts and the end of main                                      *)
(***************************************************************************)
\* MODEL_PATH, ENCODERS_PATH, SCALER_PATH, METRICS_PATH, FEATURE_IMPORTANCE_PATH
\* in the order save_artifacts writes them
ARTIFACTS == <<"model_v2.pkl", "encoders_v2.pkl", "scaler_v2.pkl",
               "metrics_v2.json", "feature_importance.json">>

Content(path) ==
    CASE path = "model_v2.pkl" -> [model |-> "RandomForestRegressor", r2 |-> r2]
      [] path = "encoders_v2.pkl" -> encoders
      [] path = "scaler_v2.pkl" -> scaler
      [] path = "metrics_v2.json" -> metrics
      [] OTHER -> [feature_names |-> feature_names,
                   importance |-> metrics.feature_importance]

\* lines 569-594: the next of the five writes; a write that raises (OSError)
\* ends the run with the earlier files written
SaveArtifact ==
    /\ pc = "save_artifacts"
    /\ Len(artifacts) < Len(ARTIFACTS)
    /\ LET path == ARTIFACTS[Len(artifacts) + 1]
       IN \/ /\ artifacts' = Append(artifacts, [path |-> path, content |-> Content(path)])
             /\ UNCHANGED <<pc, error>>
          \/ /\ pc' = "aborted" /\ error' = Failure("OSError")
             /\ UNCHANGED artifacts
    /\ UNCHANGED <<raw, tableVars, prepVars, cvVars, feature_names, r2, metrics, fits>>

\* main lines 624-635
MainReturn ==
    /\ pc = "save_artifacts"
    /\ Len(artifacts) = Len(ARTIFACTS)
    /\ pc' = "done"
    /\ UNCHANGED <<error, raw, tableVars, prepVars, cvVars, outVars, fits>>

(***************************************************************************)
(* main: the whole pipeline                                                *)
(***************************************************************************)
Next ==
    \/ Load
    \/ Normalize \/ ConvertYield \/ RemoveOutliers \/ Backfill \/ Engineer
    \/ Encode \/ Scale \/ FinalStats
    \/ SelectFeatures
    \/ TrainModels
    \/ TemporalEnter \/ TemporalFold \/ TemporalReturn
    \/ SpatialEnter \/ SpatialFold \/ SpatialReturn
    \/ CompileMetrics
    \/ SaveArtifact
    \/ MainReturn

Unfitted == [fitted |-> FALSE, cols |-> <<>>, n_samples_seen_ |-> 0]
DefaultSplits == 5     \* n_splits: int = 5

\* the run is at position p over the loaded table T, nothing fit or written
Start(p, T, k) ==
    /\ pc = p
    /\ error = NoError
    /\ raw = T
    /\ columns = IF p = "load" THEN {} ELSE T.columns
    /\ rows = IF p = "load" THEN <<>> ELSE T.rows
    /\ encoders = <<>>
    /\ scaler = Unfitted
    /\ feature_names = <<>>
    /\ r2 = NaN
    /\ n_splits = k
    /\ years = <<>>
    /\ i = 0
    /\ splits = <<>>
    /\ temporal_results = Unset
    /\ spatial_results = Unset
    /\ metrics = Unset
    /\ artifacts = <<>>
    /\ fits = <<>>

(***************************************************************************)
(* Loaded tables for the whole pipeline: one state and crop, three calendar *)
(* years with no, one or ten rows, one or two districts, with or without   *)
(* the year, district and optional columns, all yields valid or all not    *)
(***************************************************************************)
DistrictNames == <<"pune", "nashik", "nagpur", "thane", "latur", "sangli", "satara">>
OptionalColumns == {temperature, humidity, soil_type, ndvi, soil_moisture, lst}
RequiredColumns == {state, crop, season, rainfall, yield}

\* the cell of column c in a row of the given year, district and yield
CellOf(c, y, d, v) ==
    CASE c = year -> Num(y)
      [] c = district -> Str(<<MWord(DistrictNames[d])>>)
      [] c = yield -> Num(v)
      [] c = state -> Str(<<UWord("punjab")>>)
      [] c = crop -> Str(<<MWord("rice"), SP>>)
      [] c = season -> Str(<<MWord("monsoon")>>)
      [] c = soil_type -> Str(S1("loamy"))
      [] OTHER -> Num(700)

\* cnt[y] rows for every year y of ys, the districts taken in turn
RECURSIVE YearRows(_, _, _, _, _)
YearRows(ys, cnt, cols, nd, v) ==
    IF ys = <<>> THEN <<>>
    ELSE [k \in 1 .. cnt[Head(ys)] |->
             [c \in cols |-> CellOf(c, Head(ys), (k % nd) + 1, v)]]
         \o YearRows(Tail(ys), cnt, cols, nd, v)

PipelineYears == 2019 .. 2021
PipelineCounts ==
    {cnt \in [PipelineYears -> {0, 2, MinTestRows}] :
        cnt[2019] \in {0, 2} /\ cnt[2020] = 2 /\ cnt[2021] \in {2, MinTestRows}}

PipelineTables ==
    {Table(cols, YearRows(Sorted(PipelineYears), cnt, cols, nd, v)) :
        cols \in {RequiredColumns \cup a \cup b \cup c :
                     a \in {{}, {year}}, b \in {{}, {district}}, c \in {{}, OptionalColumns}},
        cnt \in PipelineCounts, nd \in {1, 2}, v \in {5000, 9000}}

Init == \E T \in PipelineTables : Start("load", T, DefaultSplits)

Spec == Init /\ [][Next]_vars

(***************************************************************************)
(* Loaded tables for the feature contract: the required columns and the    *)
(* district, and any of the optional columns                               *)
(***************************************************************************)
FeatureTables ==
    {Table(cols, YearRows(<<2021>>, [y \in {2021} |-> 3], cols, 2, 5000)) :
        cols \in {RequiredColumns \cup {district} \cup opt : opt \in SUBSET OptionalColumns}}

InitFeatures == \E T \in FeatureTables : Start("load", T, DefaultSplits)

NextFeatures ==
    \/ Load
    \/ Normalize \/ ConvertYield \/ RemoveOutliers \/ Backfill \/ Engineer
    \/ Encode \/ Scale \/ FinalStats
    \/ SelectFeatures
    \/ TrainModels

SpecFeatures == InitFeatures /\ [][NextFeatures]_vars

(***************************************************************************)
(* Tables for temporal_cv alone, with the columns it reads: every year of  *)
(* the universe has no row, too few rows to be a test fold, or enough      *)
(***************************************************************************)
MaxYears == 4
MaxSplits == 5
YearUniverse == 2018 .. (2017 + MaxYears)
CountChoices == {0, MinTestRows - 1, MinTestRows}

InitTemporal ==
    \E k \in 1 .. MaxSplits, cols \in {{yield}, {year, yield}},
       cnt \in [YearUniverse -> CountChoices] :
        /\ year \notin cols => \A y \in YearUniverse : cnt[y] = MinTestRows
        /\ Start("temporal_cv", Table(cols, YearRows(Sorted(YearUniverse), cnt, cols, 1, 5000)), k)

NextTemporal == TemporalEnter \/ TemporalFold \/ TemporalReturn

SpecTemporal == InitTemporal /\ [][NextTemporal]_vars

(***************************************************************************)
(* Tables for spatial_cv alone, with the columns it reads: up to MaxRows   *)
(* rows over MaxDistricts districts                                        *)
(***************************************************************************)
MaxRows == 4
MaxDistricts == 3

InitSpatial ==
    \E k \in 1 .. MaxSplits, cols \in {{yield}, {district, yield}}, n \in 0 .. MaxRows :
    \E d \in [1 .. n -> 1 .. MaxDistricts] :
        /\ district \notin cols => \A r \in 1 .. n : d[r] = 1
        /\ Start("spatial_cv",
                 Table(cols, [r \in 1 .. n |-> [c \in cols |-> CellOf(c, 2021, d[r], 5000)]]),
                 k)

NextSpatial == SpatialEnter \/ SpatialFold \/ SpatialReturn

SpecSpatial == InitSpatial /\ [][NextSpatial]_vars

(***************************************************************************)
(* Raw tables for the schema normalization: each column is absent or       *)
(* present under a raw name, each cell one of a few raw strings            *)
(***************************************************************************)
MaxNormRows == 1

RawNames ==
    [state |-> {<<MWord("state"), SP>>},
     season |-> {<<TAB, UWord("season")>>},
     region |-> {<<MWord("region")>>},
     rainfall |-> {<<MWord("annual"), SP, MWord("rainfall")>>, S1("rainfall")},
     year |-> {<<MWord("crop"), US, MWord("year")>>, <<SP, TAB, Word("year")>>}]

RawCells ==
    [state |-> {NaN, Str(<<SP, MWord("punjab"), COMMA, SP, MWord("india")>>),
                Str(<<UWord("unknownland")>>), Str(<<Word("west"), SP, Word("bengal"), TAB, SP>>)},
     season |-> {NaN, Str(<<MWord("winter"), SP>>), Str(<<UWord("whole"), SP, UWord("year")>>),
                 Str(S1("kharif"))},
     region |-> {Str(<<MWord("north")>>)},
     rainfall |-> {Num(700)},
     year |-> {Num(2020)}]

\* the canonical column a raw name stands for
KindOf(name) == CHOOSE k \in DOMAIN RawNames : name \in RawNames[k]

\* the rows of a raw table: a cell for each of its columns
RawRows(cols, picks) ==
    [r \in DOMAIN picks |->
        [c \in cols |-> IF KindOf(c) \in {"state", "season"} THEN picks[r][KindOf(c)]
                        ELSE CHOOSE x \in RawCells[KindOf(c)] : TRUE]]

InitNormalize ==
    \E cols \in SUBSET (UNION Range(RawNames)), n \in 0 .. MaxNormRows :
    \E picks \in [1 .. n -> [state : RawCells.state, season : RawCells.season]] :
        /\ \A a, b \in cols : NormalizeName(a) = NormalizeName(b) => a = b
        /\ Start("load", Table(cols, RawRows(cols, picks)), DefaultSplits)

NextNormalize == Load \/ Normalize

SpecNormalize == InitNormalize /\ [][NextNormalize]_vars

(***************************************************************************)
(* Raw tables for the outlier filter: up to MaxOutlierRows rows of a known *)
(* and an unknown crop                                                     *)
(***************************************************************************)
MaxOutlierRows == 3

OutlierCrops == {Str(<<MWord("rice"), SP>>), Str(S1("quinoa"))}
OutlierYields == {NaN, Num(0), Num(5), Num(8), Num(45), Num(5000), Num(9000)}

InitOutlier ==
    \E n \in 0 .. MaxOutlierRows :
    \E picks \in [1 .. n -> [crop : OutlierCrops, yield : OutlierYields]] :
        Start("load",
              Table({crop, yield},
                    [r \in 1 .. n |-> [c \in {crop, yield} |->
                                          IF c = crop THEN picks[r].crop ELSE picks[r].yield]]),
              DefaultSplits)

NextOutlier == Load \/ Normalize \/ ConvertYield \/ RemoveOutliers

SpecOutlier == InitOutlier /\ [][NextOutlier]_vars

(***************************************************************************)
(* Loaded tables for the lagged yield: up to MaxLagRows records of one     *)
(* crop over two states and three years with a gap, each record with a     *)
(* yield of its own                                                        *)
(***************************************************************************)
MaxLagRows == 3

LagStates == {Str(<<UWord("punjab")>>), Str(<<MWord("kerala")>>)}
LagYears == {2018, 2019, 2021}
LagColumns == RequiredColumns \cup {district, year}

InitLagged ==
    \E n \in 0 .. MaxLagRows :
    \E picks \in [1 .. n -> [state : LagStates, year : LagYears]] :
        Start("load",
              Table(LagColumns,
                    [r \in 1 .. n |-> [c \in LagColumns |->
                        CASE c = state -> picks[r].state
                          [] c = year -> Num(picks[r].year)
                          [] c = yield -> Num(1000 * r)
                          [] OTHER -> CellOf(c, picks[r].year, r, 1000 * r)]]),
              DefaultSplits)

NextEngineer ==
    \/ Load
    \/ Normalize \/ ConvertYield \/ RemoveOutliers \/ Backfill \/ Engineer

SpecLagged == InitLagged /\ [][NextEngineer]_vars

(***************************************************************************)
(* Loaded tables for the feature engineering: any of its source columns,   *)
(* at most one of them with a cell that is no number, and one of a few     *)
(* rainfall values                                                         *)
(***************************************************************************)
EngineerSources == {production, area, fertilizer, pesticide, rainfall, year}
TextSources == {production, area, fertilizer, pesticide, rainfall}
RainfallValues == {0, 300, 500, 501, 1000, 1500, 2000, 2001}
NotANumber == Str(<<Word("n/a")>>)

InitEngineer ==
    \E S \in SUBSET EngineerSources, rain \in RainfallValues,
       text \in {{}} \cup {{c} : c \in TextSources} :
        LET cols == {state, district, crop, season, yield} \cup S
        IN /\ text \subseteq S
           /\ rainfall \notin S => rain = 300
           /\ Start("load",
                    Table(cols,
                          [r \in 1 .. 2 |-> [c \in cols |->
                              IF r = 1 /\ c \in text THEN NotANumber
                              ELSE IF c = rainfall THEN Num(rain)
                              ELSE CellOf(c, 2019 + r, r, 5000)]]),
                    DefaultSplits)

SpecEngineer == InitEngineer /\ [][NextEngineer]_vars

(***************************************************************************)
(* Properties                                                              *)
(***************************************************************************)
\* the temporal folds that were fit; what is the fold's test year
TemporalFolds == SelectSeq(fits, LAMBDA f : f.obj = "temporal_fold")

\* C1: in every fold temporal_cv evaluates, every training row has a year
\* strictly less than the fold's test year, and every test row has the
\* fold's test year.
C1_NoFutureLeakage ==
    \A k \in DOMAIN TemporalFolds :
        LET f == TemporalFolds[k]
        IN /\ \A r \in f.train : rows[r][year].v < f.what
           /\ \A r \in f.test : rows[r][year].v = f.what

\* a fold was evaluated in a table that also has rows of later years, which
\* are on neither side of it
C1_Witness ==
    \E k \in DOMAIN TemporalFolds :
        LET f == TemporalFolds[k]
        IN /\ f.train # {} /\ f.test # {}
           /\ \E r \in RowIds : rows[r][year].v > f.what
           /\ f.train \cup f.test # RowIds

SpatialFolds == SelectSeq(fits, LAMBDA f : f.obj = "spatial_fold")

Districts(idx) == {rows[r][district] : r \in idx}

\* C2: spatial_cv makes min(n_splits, number of distinct districts) folds,
\* and in every fold it evaluates no district has rows on both sides: the
\* districts of the training rows and those of the test rows are disjoint.
C2_DistrictsDisjoint ==
    /\ pc = "spatial_loop" =>
          Len(splits) = IF n_splits <= Cardinality(Column(district))
                        THEN n_splits ELSE Cardinality(Column(district))
    /\ \A k \in DOMAIN SpatialFolds :
          Districts(SpatialFolds[k].train) \cap Districts(SpatialFolds[k].test) = {}

\* a fold was evaluated whose two sides both hold rows, in a table where
\* some district has several rows
C2_Witness ==
    \E k \in DOMAIN SpatialFolds :
        /\ SpatialFolds[k].train # {}
        /\ SpatialFolds[k].test # {}
        /\ \E a, b \in RowIds : a # b /\ rows[a][district] = rows[b][district]

\* the yield the filter judges, as the specification states it: the raw yield
\* times 1000 when the median of the raw yields is below 100
C3_Judged(raw_yield) ==
    LET present == SelectSeq([r \in DOMAIN raw.rows |-> raw.rows[r][yield]],
                             LAMBDA x : x # NaN)
        values == [k \in DOMAIN present |-> present[k].v]
        n == Len(values)
        \* the median is below 100 iff the values in the middle of a sorted
        \* arrangement are
        median_below_100 ==
            /\ n > 0
            /\ \E s \in [1 .. n -> 1 .. n] :
                  /\ \A a, b \in 1 .. n : a # b => s[a] # s[b]
                  /\ \A a, b \in 1 .. n : a < b => values[s[a]] <= values[s[b]]
                  /\ IF n % 2 = 1 THEN values[s[(n + 1) \div 2]] < 100
                     ELSE values[s[n \div 2]] + values[s[(n \div 2) + 1]] < 200
    IN IF raw_yield = NaN THEN NaN
       ELSE IF median_below_100 THEN Num(raw_yield.v * 1000) ELSE raw_yield

C3_Bounds(name) ==
    CASE name = S1("rice") -> <<500, 8000>>
      [] name = S1("wheat") -> <<500, 7000>>
      [] name = S1("maize") -> <<500, 12000>>
      [] name = S1("cotton") -> <<100, 3000>>
      [] name = S1("sugarcane") -> <<30000, 150000>>
      [] name \in {S1("groundnut"), S1("soybean"), S1("soyabean")} -> <<300, 4000>>
      [] name \in {S1("bajra"), S1("jowar")} -> <<200, 3500>>
      [] name = S1("potato") -> <<5000, 50000>>
      [] name = S1("onion") -> <<5000, 40000>>
      [] name = S1("tomato") -> <<10000, 80000>>
      [] OTHER -> <<50, 100000>>

\* a raw record is retained iff its judged yield is present, positive and
\* within the bounds of its lower-cased crop name
C3_Retained(raw_row) ==
    LET v == C3_Judged(raw_row[yield])
        b == C3_Bounds(strip(lower(str(raw_row[crop]))))
    IN v # NaN /\ v.v > 0 /\ b[1] <= v.v /\ v.v <= b[2]

\* C3: after the outlier filter the table holds exactly the retained records
\* of the loaded table, in order, each with its judged yield; so every record
\* left has a yield within its crop's range.
C3_RetentionPredicate ==
    pc = "backfill" =>
        /\ [r \in RowIds |-> <<rows[r][crop].v, rows[r][yield]>>]
              = LET kept == SelectSeq(raw.rows, C3_Retained)
                IN [k \in DOMAIN kept |->
                       <<strip(lower(str(kept[k][crop]))), C3_Judged(kept[k][yield])>>]
        /\ \A r \in RowIds :
              LET b == C3_Bounds(rows[r][crop].v)
              IN b[1] <= rows[r][yield].v /\ rows[r][yield].v <= b[2]

\* rice at raw 5, 45 and 9000: the median 45 is below 100, so 5 is judged as
\* 5000 and kept, 45 and 9000 are judged as 45000 and 9000000 and dropped
C3_Witness ==
    /\ pc = "backfill"
    /\ Len(raw.rows) = 3
    /\ \A r \in 1 .. 3 : raw.rows[r][crop] = Str(<<MWord("rice"), SP>>)
    /\ {raw.rows[r][yield] : r \in 1 .. 3} = {Num(5), Num(45), Num(9000)}
    /\ Len(rows) = 1
    /\ rows[1][yield] = Num(5000)

\* the candidate test years of temporal_cv as the specification states them:
\* Y[-1], Y[-2], ... for min(n_splits, |Y| - 2) candidates
C4_Years == {x.v : x \in Column(year)}

C4_Candidates ==
    LET Y == Sorted(C4_Years)
        K == IF n_splits <= Len(Y) - 2 THEN n_splits ELSE Len(Y) - 2
    IN [k \in 1 .. K |-> Y[Len(Y) + 1 - k]]

C4_Evaluated(test_year) ==
    /\ Cardinality({y \in C4_Years : y < test_year}) >= 2
    /\ Cardinality({r \in RowIds : rows[r][year].v = test_year}) >= 10

C4_TestYears == [k \in DOMAIN TemporalFolds |-> TemporalFolds[k].what]

\* C4: when temporal_cv returns its result lists, the folds it recorded are
\* exactly the candidates Y[-1], Y[-2], ... (min(n_splits, |Y| - 2) of them)
\* that have at least 2 training years and at least 10 test rows, in that
\* order; so there are at most min(n_splits, |Y| - 2) of them, and for the
\* years 2018..2021 with n_splits = 5 they are among 2021, 2020.
C4_FoldEnumeration ==
    (pc = "spatial_cv" /\ temporal_results.kind = "lists") =>
        /\ C4_TestYears = SelectSeq(C4_Candidates, C4_Evaluated)
        /\ Len(temporal_results.r2) = Len(C4_TestYears)
        /\ Len(C4_TestYears) <= Len(C4_Candidates)
        /\ (C4_Years = 2018 .. 2021 /\ n_splits = 5) =>
               /\ Len(C4_TestYears) <= 2
               /\ \A k \in DOMAIN C4_TestYears : C4_TestYears[k] \in {2021, 2020}

\* years 2018..2021, n_splits = 5: the candidate 2021 was skipped for having
\* fewer than 10 rows, and the later candidate 2020 was still evaluated
C4_Witness ==
    /\ pc = "spatial_cv"
    /\ temporal_results.kind = "lists"
    /\ C4_Years = 2018 .. 2021
    /\ n_splits = 5
    /\ Cardinality(TestMask(2021)) < 10
    /\ C4_TestYears = <<2020>>

\* a CV R2 mean of the metrics record that equals the holdout r2_score
C5_IsHoldout(cv_mean) ==
    /\ cv_mean.t = "mean"
    /\ cv_mean.v[1] = r2.v * cv_mean.v[2]

\* C5: whenever a CV strategy records no fold, the run is not aborted by it
\* and the CV R2 mean of the metrics record equals the holdout r2_score.
C5_EmptyCVFallsBack ==
    /\ (pc \in {"save_artifacts", "done"} /\ temporal_results.r2 = <<>>) =>
          C5_IsHoldout(metrics.temporal_cv_r2_mean)
    /\ (pc \in {"save_artifacts", "done"} /\ spatial_results.r2 = <<>>) =>
          C5_IsHoldout(metrics.spatial_cv_r2_mean)
    /\ (pc = "aborted" /\ temporal_results.kind # "unset") => error.type = "OSError"

\* C6: a run over a table that has the yield column and lacks year or
\* district does not end on the missing column.
C6_MissingColumnNotFatal ==
    (yield \in raw.columns /\ (year \notin raw.columns \/ district \notin raw.columns)) =>
        ~(pc = "aborted" /\ error \in {KeyError(year), KeyError(district)})

\* C7: the run has written all five artifacts or none: an aborted run has
\* written no artifact.
C7_AllOrNothing ==
    /\ pc = "aborted" => artifacts = <<>>
    /\ pc = "done" => [k \in DOMAIN artifacts |-> artifacts[k].path] = ARTIFACTS

\* C8: the schema normalization is idempotent: the table that steps 1-5 made
\* of the loaded table is left as it is by a second application of them.
C8_NormalizeIdempotent ==
    pc = "yield_conversion" => SchemaNormalizer(df) = df

\* the normalization changed names and cells of the loaded table, copied a
\* synonym column and derived the region
C8_Witness ==
    /\ pc = "yield_conversion"
    /\ rainfall \in columns /\ rainfall \notin raw.columns
    /\ year \in columns /\ crop_year \in columns
    /\ region \in columns /\ \A c \in raw.columns : NormalizeName(c) # region
    /\ state \in columns /\ season \in columns
    /\ \E r \in RowIds :
          /\ rows[r][season] = Str(S1("rabi"))
          /\ rows[r][state] = Str(<<Word("punjab"), COMMA, SP, Word("india")>>)
          /\ rows[r][region] = Str(<<Word("north-india")>>)

\* the feature list of the inference contract
C9_Contract ==
    <<S2("state", "encoded"), S2("district", "encoded"), S2("crop", "encoded"),
      S2("season", "encoded"), S3("soil", "type", "encoded"),
      S2("rainfall", "scaled"), S2("temperature", "scaled"), S2("humidity", "scaled"),
      S2("ndvi", "scaled"), S3("soil", "moisture", "scaled"), S2("lst", "scaled")>>

\* C9: for every table with state, district, crop, season, rainfall and
\* yield, whichever optional columns it has, the feature list the estimator
\* is given is the 11 names of the contract, in order.
C9_FixedFeatureList ==
    pc = "train" => feature_names = C9_Contract

\* the stage of main a position belongs to
C10_Stage(p) ==
    CASE p = "load" -> 1
      [] p \in {"preprocess", "yield_conversion", "remove_outliers", "backfill", "engineer",
                "encode", "scale", "final_stats"} -> 2
      [] p = "select_features" -> 3
      [] p \in {"train", "temporal_cv", "temporal_loop", "spatial_cv", "spatial_loop",
                "compile_metrics"} -> 4
      [] p = "save_artifacts" -> 5
      [] p = "done" -> 6
      [] OTHER -> 7

C10_TransformFit(f) == f.obj \in {"encoder", "scaler"}

\* once preprocess is over every categorical column of the table has its
\* encoder, fit once, the scaler is fit once, and these fits come before
\* every fit of an estimator
C10_FitOnce ==
    C10_Stage(pc) \in 3 .. 6 =>
        /\ DOMAIN encoders = {c \in Range(categorical_cols) : c \in columns}
        /\ \A c \in DOMAIN encoders :
              Cardinality({k \in DOMAIN fits :
                              fits[k].obj = "encoder" /\ fits[k].what = c}) = 1
        /\ scaler.fitted
        /\ Cardinality({k \in DOMAIN fits : fits[k].obj = "scaler"}) = 1
        /\ \A a, b \in DOMAIN fits :
              (C10_TransformFit(fits[a]) /\ ~C10_TransformFit(fits[b])) => a < b

\* what was saved as encoders and scaler is what preprocess made
C10_Saved ==
    \A k \in DOMAIN artifacts :
        /\ artifacts[k].path = "encoders_v2.pkl" => artifacts[k].content = encoders
        /\ artifacts[k].path = "scaler_v2.pkl" => artifacts[k].content = scaler

\* C10: the stages run in the order load, preprocess, select, train/CV, save;
\* every encoder and the scaler is fit exactly once, in preprocess, before
\* any estimator is fit; after preprocess no step, and no CV fold, fits or
\* changes them; and the encoders and scaler saved are those of preprocess.
C10_FitOnceWriteThenRead ==
    /\ [][/\ (C10_Stage(pc') \in {C10_Stage(pc), C10_Stage(pc) + 1} \/ pc' = "aborted")
          /\ C10_Stage(pc) = 2 => (fits' = fits \/ \A k \in (Len(fits) + 1) .. Len(fits') :
                                                       C10_TransformFit(fits'[k]))
          /\ C10_Stage(pc) # 2 =>
                /\ encoders' = encoders /\ scaler' = scaler
                /\ \A k \in (Len(fits) + 1) .. Len(fits') : ~C10_TransformFit(fits'[k])]_vars
    /\ [](C10_FitOnce /\ C10_Saved)

\* a finished run in which temporal and spatial folds were fit after the
\* encoders and the scaler, and both were saved
C10_Witness ==
    /\ pc = "done"
    /\ TemporalFolds # <<>>
    /\ SpatialFolds # <<>>
    /\ DOMAIN encoders # {}
    /\ scaler.fitted
    /\ \E k \in DOMAIN artifacts :
          artifacts[k].path = "scaler_v2.pkl" /\ artifacts[k].content = scaler

\* the records of r's (state, crop) group with an earlier year, and those of
\* them in the latest such year
C11_Earlier(r) ==
    {q \in RowIds : /\ rows[q][state] = rows[r][state]
                    /\ rows[q][crop] = rows[r][crop]
                    /\ rows[q][year].v < rows[r][year].v}

C11_Preceding(r) ==
    {q \in C11_Earlier(r) : \A p \in C11_Earlier(r) : rows[p][year].v <= rows[q][year].v}

\* C11: after the feature engineering of a table with a year column, every
\* record's prev_year_yield is the yield of a record of the preceding year
\* of its (state, crop) group and its yield_change is its yield minus that;
\* with no earlier year in the group prev_year_yield has no value and
\* yield_change is 0.
C11_LaggedYield ==
    (pc = "encode" /\ year \in columns) =>
        \A r \in RowIds :
            LET prev == rows[r][S3("prev", "year", "yield")]
                change == rows[r][S2("yield", "change")]
            IN IF C11_Earlier(r) = {}
               THEN prev = NaN /\ change = Num(0)
               ELSE \E q \in C11_Preceding(r) :
                       /\ prev = rows[q][yield]
                       /\ change = Num(rows[r][yield].v - rows[q][yield].v)

\* C12: the feature engineering ends in the encoding, whichever of its
\* source columns the table has and whatever their cells hold: it raises
\* neither a TypeError nor a KeyError.
C12_EngineeringNeverFails ==
    ~(pc = "aborted" /\ error.type \in {"TypeError", "KeyError"})

\* the label of a rainfall by the edges 0, 500, 1000, 1500, 2000, infinity
C13_Label(mm) ==
    IF mm <= 500 THEN <<Word("very"), US, Word("low")>>
    ELSE IF mm <= 1000 THEN <<Word("low")>>
    ELSE IF mm <= 1500 THEN <<Word("medium")>>
    ELSE IF mm <= 2000 THEN <<Word("high")>>
    ELSE <<Word("very"), US, Word("high")>>

\* C13: after the feature engineering every record with a rainfall of 0 or
\* more, the 0 of a coerced cell included, has the rainfall_category of its
\* bin, one of very_low, low, medium, high, very_high.
C13_RainfallCategoryTotal ==
    (pc = "encode" /\ rainfall \in columns) =>
        \A r \in RowIds :
            rows[r][rainfall].v >= 0 =>
                rows[r][S2("rainfall", "category")] = Str(C13_Label(rows[r][rainfall].v))

====
